---- MODULE Spec2Model ----
(***************************************************************************)
(* Model of the /ws/stt relay of app.py: the stt_proxy handler (handshake, *)
(* upstream connect, client-to-upstream loop, shutdown) and the            *)
(* pipe_sr_to_client thread it starts.  The client, the upstream service   *)
(* and the two transports are the environment: every receive draws its     *)
(* outcome from a small set and every send may fail.                       *)
(***************************************************************************)
EXTENDS Integers, Sequences, FiniteSets, TLC

(* ---- bounds ---- *)
MaxClientMsgs == 2      \* non-terminal client messages read by the streaming loop
MaxUpMsgs == 2          \* messages the pump receives from the upstream service

(* ---- process configuration (module level of app.py) ---- *)
DEFAULT_SONIOX_MODEL == "soniox/embedded/v1/rt"
DEFAULT_LANGUAGE_HINTS == <<"en", "fr", "nl">>
DefaultSampleRate == 48000

(* ---- values of the JSON field sample_rate_hz ---- *)
\* t: "absent" | "int" | "badstr" (a string that is not a number)
\* n: the integer (int), 0 otherwise
SrAbsent == [t |-> "absent", n |-> 0]
SrInt(k) == [t |-> "int", n |-> k]
SrBadStr == [t |-> "badstr", n |-> 0]

\* Python truthiness of a sample_rate_hz value, as `x or 48000` tests it
Truthy(v) ==
    CASE v.t = "absent" -> FALSE
      [] v.t = "int"    -> v.n # 0
      [] v.t = "badstr" -> TRUE

\* Python int(): ok = FALSE is ValueError/TypeError
PyInt(v) ==
    CASE v.t = "int"    -> [ok |-> TRUE, n |-> v.n]
      [] OTHER          -> [ok |-> FALSE, n |-> 0]

(* ---- json.loads on the texts the model's clients send ---- *)
\* ok: parsed; obj: the value is a JSON object (a dict, has .get);
\* eos: truthiness of the object's 'eos'; sr, hasLh, lh, model: handshake fields
ParseFail == [ok |-> FALSE, obj |-> FALSE, eos |-> FALSE, sr |-> SrAbsent,
              hasLh |-> FALSE, lh |-> <<>>, model |-> ""]
ParseObj(e, s, h, l, m) == [ok |-> TRUE, obj |-> TRUE, eos |-> e, sr |-> s,
                            hasLh |-> h, lh |-> l, model |-> m]
ParseNonObj == [ok |-> TRUE, obj |-> FALSE, eos |-> FALSE, sr |-> SrAbsent,
                hasLh |-> FALSE, lh |-> <<>>, model |-> ""]

JsonLoads(text) ==
    CASE text = "{}" -> ParseObj(FALSE, SrAbsent, FALSE, <<>>, "")
      [] text = "{language_hints:[fr],sample_rate_hz:16000}" ->
             ParseObj(FALSE, SrInt(16000), TRUE, <<"fr">>, "")
      [] text = "{language_hints:[],sample_rate_hz:0}" ->
             ParseObj(FALSE, SrInt(0), TRUE, <<>>, "")
      [] text = "{sample_rate_hz:-16000,model:m2}" ->
             ParseObj(FALSE, SrInt(0 - 16000), FALSE, <<>>, "m2")
      [] text = "{sample_rate_hz:abc}" ->
             ParseObj(FALSE, SrBadStr, FALSE, <<>>, "")
      [] text = "{eos:true}" -> ParseObj(TRUE, SrAbsent, FALSE, <<>>, "")
      [] text = "{eos:false}" -> ParseObj(FALSE, SrAbsent, FALSE, <<>>, "")
      [] text = "[1]" -> ParseNonObj
      [] OTHER -> ParseFail

\* `raw_first or '{}'`: None and the empty string become '{}'
OrEmptyObj(m) == IF m.kind = "closed" \/ m.body = "" THEN "{}" ELSE m.body

(* ---- what the environment can deliver ---- *)
\* a message returned by ws_client.receive(): kind "bin" | "text" | "closed"
\* (receive returned None) | "raise" (receive raised)
Bin(b) == [kind |-> "bin", body |-> b]
Text(b) == [kind |-> "text", body |-> b]
Closed == [kind |-> "closed", body |-> ""]
Raise == [kind |-> "raise", body |-> ""]
Unread == [kind |-> "unread", body |-> ""]

Frames == {"f1", "f2"}
HandshakeTexts == {"{language_hints:[fr],sample_rate_hz:16000}",
                   "{language_hints:[],sample_rate_hz:0}",
                   "{sample_rate_hz:-16000,model:m2}", "{sample_rate_hz:abc}",
                   "[1]", "nope"}
FirstInputs == {Bin(b) : b \in {"f1"}} \cup {Text(t) : t \in HandshakeTexts}
                  \cup {Closed, Raise}
\* in the streaming loop every text that is not an end-of-stream message
\* takes the loop back to receive; one such text stands for them
StreamTexts == {"{eos:true}", "{eos:false}"}
StreamInputs == {Bin(b) : b \in Frames} \cup {Text(t) : t \in StreamTexts}
                   \cup {Closed, Raise}
\* what ws_sr.recv() returns while the connection is up
UpTexts == {"t1", "t2"}
UpInputs == {[bin |-> FALSE, body |-> t] : t \in UpTexts}
               \cup {[bin |-> TRUE, body |-> "b1"]}

(* ---- messages the handler builds ---- *)
ErrMissingKey == "error:Missing SONIOX_API_KEY"
ErrExpectedConfig == "error:Expected JSON config first"
ErrInvalidConfig == "error:Invalid config"
ErrConnect == "error:Failed to connect Soniox"
ErrSendConfig == "error:Failed to send config to Soniox"
ErrorMsgs == {ErrMissingKey, ErrExpectedConfig, ErrInvalidConfig, ErrConnect,
              ErrSendConfig}

VARIABLES
    apiKey,          \* SONIOX_API_KEY is non-empty
    hpc,             \* position of the stt_proxy handler
    ppc,             \* position of the pipe_sr_to_client thread
    firstMsg,        \* raw_first (Unread before the first receive)
    cfg_msg,         \* parsed handshake
    language_hints, sample_rate_hz, model,   \* locals of lines 206-208
    conn,            \* ws_sr: "none" | "open" | "closed"
    connects,        \* calls of websocket.create_connection
    stop_flag,       \* stop_flag["stop"]
    raising,         \* an exception is propagating through the finally block
    pmsg,            \* msg of the pump
    clientIn,        \* outcomes of ws_client.receive() in the streaming loop
    upSent,          \* messages sent on ws_sr, in order
    upFail,          \* some send on ws_sr raised
    upRecv,          \* messages ws_sr.recv() returned to the pump
    toClient,        \* calls of ws_client.send: [msg, by, ok]
    pexit,           \* why the pump left its loop ("none" while it runs)
    lateRecv,        \* recv returned a message after the handler left its loop
    starts,          \* calls of t.start()
    lateSends,       \* the handler's position at each send the pump made
                     \* after stop_flag was set
    clientQuiet      \* the client stays connected and sends nothing more

vars == <<apiKey, hpc, ppc, firstMsg, cfg_msg, language_hints, sample_rate_hz,
          model, conn, connects, stop_flag, raising, pmsg, clientIn, upSent,
          upFail, upRecv, toClient, pexit, lateRecv, starts, lateSends,
          clientQuiet>>

hsVars == <<cfg_msg, language_hints, sample_rate_hz, model>>
pumpVars == <<ppc, pmsg, upRecv, pexit, lateRecv, starts, lateSends>>
upVars == <<conn, connects, upSent, upFail>>

Init ==
    /\ apiKey \in BOOLEAN
    /\ hpc = "start"
    /\ ppc = "idle"
    /\ firstMsg = Unread
    /\ cfg_msg = ParseFail
    /\ language_hints = <<>>
    /\ sample_rate_hz = 0
    /\ model = ""
    /\ conn = "none"
    /\ connects = 0
    /\ stop_flag = FALSE
    /\ raising = FALSE
    /\ pmsg = ""
    /\ clientIn = <<>>
    /\ upSent = <<>>
    /\ upFail = FALSE
    /\ upRecv = <<>>
    /\ toClient = <<>>
    /\ pexit = "none"
    /\ lateRecv = FALSE
    /\ starts = 0
    /\ lateSends = <<>>
    /\ clientQuiet = FALSE

\* one call of ws_client.send(msg); ok = FALSE: the call raised
Sent(msg, by, ok) == [msg |-> msg, by |-> by, ok |-> ok]

\* where the handler ends after a send to the client outside any try block
AfterSend(ok) == IF ok THEN "returned" ELSE "raised"

\* a key test whose error branch does not return
CheckKeyNoReturn ==
    /\ hpc = "start"
    /\ IF ~apiKey
         THEN \E ok \in BOOLEAN :
                /\ toClient' = Append(toClient, Sent(ErrMissingKey, "handler", ok))
                /\ hpc' = IF ok THEN "recv_first" ELSE "raised"
         ELSE /\ hpc' = "recv_first"
              /\ UNCHANGED toClient
    /\ UNCHANGED <<apiKey, firstMsg, hsVars, upVars, stop_flag, raising,
                   pumpVars, clientIn, clientQuiet>>

(* ---- stt_proxy, lines 190-192 ---- *)
CheckKey ==
    /\ hpc = "start"
    /\ IF ~apiKey
         THEN \E ok \in BOOLEAN :
                /\ toClient' = Append(toClient, Sent(ErrMissingKey, "handler", ok))
                /\ hpc' = AfterSend(ok)
         ELSE /\ hpc' = "recv_first"
              /\ UNCHANGED toClient
    /\ UNCHANGED <<apiKey, firstMsg, hsVars, upVars, stop_flag, raising,
                   pumpVars, clientIn, clientQuiet>>

(* ---- stt_proxy, lines 195-204: the handshake read ---- *)
\* the except clause of line 202: report and return
InvalidConfig(sentSoFar) ==
    \E ok \in BOOLEAN :
        /\ toClient' = Append(sentSoFar, Sent(ErrInvalidConfig, "handler", ok))
        /\ hpc' = AfterSend(ok)
        /\ UNCHANGED cfg_msg

\* a binary branch without the return of line 200: control reaches
\* json.loads with the audio bytes, which do not parse
RejectBinaryFirstNoReturn ==
    \E ok \in BOOLEAN :
        InvalidConfig(Append(toClient, Sent(ErrExpectedConfig, "handler", ok)))

\* lines 197-200: audio before config.  The send of line 199 is inside the
\* try block, so when it raises the except clause of line 202 runs.
RejectBinaryFirst ==
    \E ok \in BOOLEAN :
        IF ok
          THEN /\ toClient' = Append(toClient, Sent(ErrExpectedConfig, "handler", TRUE))
               /\ hpc' = "returned"
               /\ UNCHANGED cfg_msg
          ELSE InvalidConfig(Append(toClient, Sent(ErrExpectedConfig, "handler", FALSE)))

\* line 201: cfg_msg = json.loads(raw_first or '{}')
ParseFirst(m) ==
    LET p == JsonLoads(OrEmptyObj(m))
    IN  IF p.ok
          THEN /\ cfg_msg' = p
               /\ hpc' = "merge"
               /\ UNCHANGED toClient
          ELSE InvalidConfig(toClient)

RecvFirst ==
    /\ hpc = "recv_first"
    /\ ~clientQuiet
    /\ \E m \in FirstInputs :
         /\ firstMsg' = m
         /\ CASE m.kind = "raise" -> InvalidConfig(toClient)
              [] m.kind = "bin"   -> RejectBinaryFirst
              [] OTHER            -> ParseFirst(m)
    /\ UNCHANGED <<apiKey, language_hints, sample_rate_hz, model, upVars,
                   stop_flag, raising, pumpVars, clientIn, clientQuiet>>

(* ---- stt_proxy, lines 206-208: defaults ---- *)
\* language_hints taken from the message without the default
LanguageHintsNoDefault(c) == c.lh

\* cfg_msg.get('language_hints') or DEFAULT_LANGUAGE_HINTS
LanguageHints(c) ==
    IF c.hasLh /\ c.lh # <<>> THEN c.lh ELSE DEFAULT_LANGUAGE_HINTS

\* int(cfg_msg.get('sample_rate_hz') or 48000)
SampleRate(c) ==
    IF Truthy(c.sr) THEN PyInt(c.sr) ELSE [ok |-> TRUE, n |-> DefaultSampleRate]

\* cfg_msg.get('model') or DEFAULT_SONIOX_MODEL
Model(c) == IF c.model # "" THEN c.model ELSE DEFAULT_SONIOX_MODEL

\* Neither line is inside a try block: cfg_msg.get on a value that is not a
\* dict (AttributeError) and int() on a non-numeric value (ValueError) leave
\* the handler by an unhandled exception.
Merge ==
    /\ hpc = "merge"
    /\ IF ~cfg_msg.obj
         THEN /\ hpc' = "raised"
              /\ UNCHANGED <<language_hints, sample_rate_hz, model>>
         ELSE /\ language_hints' = LanguageHints(cfg_msg)
              /\ IF SampleRate(cfg_msg).ok
                   THEN /\ sample_rate_hz' = SampleRate(cfg_msg).n
                        /\ model' = Model(cfg_msg)
                        /\ hpc' = "connect"
                   ELSE /\ hpc' = "raised"
                        /\ UNCHANGED <<sample_rate_hz, model>>
    /\ UNCHANGED <<apiKey, firstMsg, cfg_msg, upVars, stop_flag, raising,
                   pumpVars, clientIn, toClient, clientQuiet>>

(* ---- stt_proxy, lines 210-216: connect ---- *)
\* a connect whose failure branch reports and goes on instead of returning
ConnectNoReturn ==
    /\ hpc = "connect"
    /\ connects' = connects + 1
    /\ \E up \in BOOLEAN :
         IF up
           THEN /\ conn' = "open"
                /\ hpc' = "send_cfg"
                /\ UNCHANGED toClient
           ELSE /\ \E ok \in BOOLEAN :
                     /\ toClient' = Append(toClient, Sent(ErrConnect, "handler", ok))
                     /\ hpc' = IF ok THEN "send_cfg" ELSE "raised"
                /\ UNCHANGED conn
    /\ UNCHANGED <<apiKey, firstMsg, hsVars, upSent, upFail, stop_flag, raising,
                   pumpVars, clientIn, clientQuiet>>

Connect ==
    /\ hpc = "connect"
    /\ connects' = connects + 1
    /\ \E up \in BOOLEAN :
         IF up
           THEN /\ conn' = "open"
                /\ hpc' = "send_cfg"
                /\ UNCHANGED toClient
           ELSE /\ \E ok \in BOOLEAN :
                     /\ toClient' = Append(toClient, Sent(ErrConnect, "handler", ok))
                     /\ hpc' = AfterSend(ok)
                /\ UNCHANGED conn
    /\ UNCHANGED <<apiKey, firstMsg, hsVars, upSent, upFail, stop_flag, raising,
                   pumpVars, clientIn, clientQuiet>>

(* ---- messages on ws_sr ---- *)
\* api_key, audio_format and interim_results are the same in every session
\* and are left out of the record
UpConfig(sr, lh, m) == [kind |-> "config", body |-> "", sample_rate_hz |-> sr,
                        language_hints |-> lh, model |-> m]
UpBin(b) == [kind |-> "bin", body |-> b, sample_rate_hz |-> 0,
             language_hints |-> <<>>, model |-> ""]
UpEos == [kind |-> "text", body |-> "{eos:true}", sample_rate_hz |-> 0,
          language_hints |-> <<>>, model |-> ""]

\* soniox_config of lines 219-226
SonioxConfig == UpConfig(sample_rate_hz, language_hints, model)

(* ---- stt_proxy, lines 227-237: send the configuration ---- *)
\* On failure the error report of line 230 comes before the close of line
\* 232 and is not guarded: when it raises, ws_sr is left open.
SendConfig ==
    /\ hpc = "send_cfg"
    /\ \E up \in BOOLEAN :
         IF up
           THEN /\ upSent' = Append(upSent, SonioxConfig)
                /\ stop_flag' = FALSE
                /\ hpc' = "start_thread"
                /\ UNCHANGED <<toClient, conn, upFail>>
           ELSE /\ upFail' = TRUE
                /\ \E ok \in BOOLEAN :
                     /\ toClient' = Append(toClient, Sent(ErrSendConfig, "handler", ok))
                     /\ hpc' = AfterSend(ok)
                     /\ conn' = IF ok THEN "closed" ELSE conn
                /\ UNCHANGED <<upSent, stop_flag>>
    /\ UNCHANGED <<apiKey, firstMsg, hsVars, connects, raising, pumpVars,
                   clientIn, clientQuiet>>

(* ---- stt_proxy, lines 254-255: start the pump thread ---- *)
StartThread ==
    /\ hpc = "start_thread"
    /\ ppc = "idle"
    /\ ppc' = "check"
    /\ starts' = starts + 1
    /\ hpc' = "loop_recv"
    /\ UNCHANGED <<apiKey, firstMsg, hsVars, upVars, stop_flag, raising, pmsg,
                   upRecv, pexit, lateRecv, lateSends, clientIn, toClient,
                   clientQuiet>>

(* ---- stt_proxy, lines 258-279: the client-to-upstream loop ---- *)
\* a send_binary that writes the frame twice
SendBinaryTwice(sent, frame) == Append(Append(sent, UpBin(frame.body)), UpBin(frame.body))

\* line 265: ws_sr.send_binary(frame)
SendBinary(sent, frame) == Append(sent, UpBin(frame.body))

\* lines 271-272: json.loads(frame) and obj.get('eos'); a text that does not
\* parse, or parses to a value without .get, raises into the except clause
\* of line 278 and the loop continues
IsEos(frame) ==
    LET obj == JsonLoads(frame.body)
    IN  frame.kind = "text" /\ obj.ok /\ obj.obj /\ obj.eos

\* a loop without the break of line 277
AfterEosNoBreak == "loop_recv"

\* line 277: break after the end-of-stream message
AfterEos == "fin_stop"

\* the frames that keep the loop going are bounded; the ones that end it
\* (end-of-stream, closed, raise) are always possible
EndsLoop(frame) == frame.kind \in {"closed", "raise"} \/ IsEos(frame)

LoopRecv ==
    /\ hpc = "loop_recv"
    /\ ~clientQuiet
    /\ \E frame \in StreamInputs :
         /\ EndsLoop(frame) \/ Len(clientIn) < MaxClientMsgs
         /\ clientIn' = Append(clientIn, frame)
         /\ CASE frame.kind = "raise" ->
                   /\ raising' = TRUE
                   /\ hpc' = "fin_stop"
                   /\ UNCHANGED <<upSent, upFail>>
              [] frame.kind = "closed" ->
                   /\ hpc' = "fin_stop"
                   /\ UNCHANGED <<upSent, upFail, raising>>
              [] frame.kind = "bin" ->
                   /\ \E up \in BOOLEAN :
                        IF up
                          THEN /\ upSent' = SendBinary(upSent, frame)
                               /\ hpc' = "loop_recv"
                               /\ UNCHANGED upFail
                          ELSE /\ upFail' = TRUE
                               /\ hpc' = "fin_stop"
                               /\ UNCHANGED upSent
                   /\ UNCHANGED raising
              [] OTHER ->
                   /\ IF IsEos(frame)
                        THEN /\ \E up \in BOOLEAN :
                                  IF up
                                    THEN /\ upSent' = Append(upSent, UpEos)
                                         /\ UNCHANGED upFail
                                    ELSE /\ upFail' = TRUE
                                         /\ UNCHANGED upSent
                             /\ hpc' = AfterEos
                        ELSE /\ hpc' = "loop_recv"
                             /\ UNCHANGED <<upSent, upFail>>
                   /\ UNCHANGED raising
    /\ UNCHANGED <<apiKey, firstMsg, hsVars, conn, connects, stop_flag,
                   pumpVars, toClient, clientQuiet>>

(* ---- stt_proxy, lines 280-285: the finally block ---- *)
\* a finally block that closes without setting the flag
FinStopNoFlag ==
    /\ hpc = "fin_stop"
    /\ hpc' = "fin_close"
    /\ UNCHANGED <<apiKey, firstMsg, hsVars, upVars, stop_flag, raising,
                   pumpVars, clientIn, toClient, clientQuiet>>

FinStop ==
    /\ hpc = "fin_stop"
    /\ stop_flag' = TRUE
    /\ hpc' = "fin_close"
    /\ UNCHANGED <<apiKey, firstMsg, hsVars, upVars, raising, pumpVars,
                   clientIn, toClient, clientQuiet>>

\* a finally block that also tells the client that the session is over
FinCloseNotify ==
    /\ hpc = "fin_close"
    /\ conn' = "closed"
    /\ toClient' = Append(toClient, Sent("error:closed", "handler", TRUE))
    /\ hpc' = IF raising THEN "raised" ELSE "returned"
    /\ UNCHANGED <<apiKey, firstMsg, hsVars, connects, upSent, upFail,
                   stop_flag, raising, pumpVars, clientIn, clientQuiet>>

\* a finally block that does not close ws_sr
FinCloseLeak ==
    /\ hpc = "fin_close"
    /\ hpc' = IF raising THEN "raised" ELSE "returned"
    /\ UNCHANGED <<apiKey, firstMsg, hsVars, upVars, stop_flag, raising,
                   pumpVars, clientIn, toClient, clientQuiet>>

\* ws_sr.close(); an exception of close is swallowed, and an exception of
\* ws_client.receive() propagates once the block is done
FinClose ==
    /\ hpc = "fin_close"
    /\ conn' = "closed"
    /\ hpc' = IF raising THEN "raised" ELSE "returned"
    /\ UNCHANGED <<apiKey, firstMsg, hsVars, connects, upSent, upFail,
                   stop_flag, raising, pumpVars, clientIn, toClient, clientQuiet>>

(* ---- pipe_sr_to_client, lines 239-252 ---- *)
\* a pump whose loop does not test the flag
PumpCheckNoStop ==
    /\ ppc = "check"
    /\ ppc' = "recv"
    /\ UNCHANGED <<apiKey, hpc, firstMsg, hsVars, upVars, stop_flag, raising,
                   pmsg, upRecv, pexit, lateRecv, starts, lateSends, clientIn,
                   toClient, clientQuiet>>

\* line 241: while not stop_flag["stop"]
PumpCheck ==
    /\ ppc = "check"
    /\ IF stop_flag
         THEN ppc' = "done" /\ pexit' = "stop"
         ELSE ppc' = "recv" /\ UNCHANGED pexit
    /\ UNCHANGED <<apiKey, hpc, firstMsg, hsVars, upVars, stop_flag, raising,
                   pmsg, upRecv, lateRecv, starts, lateSends, clientIn, toClient,
                   clientQuiet>>

\* a pump without the isinstance test of line 246
AfterRecvNoTest(m) == "send"

\* lines 246-248: what the pump does with a message; binary goes back to the
\* loop test, text goes on to ws_client.send
AfterRecv(m) == IF m.bin THEN "check" ELSE "send"

\* the handler is past its loop when the message arrives
Late == hpc \notin {"start_thread", "loop_recv"}

\* line 242 while ws_sr is up: the service delivers a message, or the
\* connection ends ("ended": recv returns None, line 243, or raises, line
\* 250; the pump leaves its loop the same way in both cases)
PumpRecvRemote ==
    /\ ppc = "recv"
    /\ conn = "open"
    /\ \/ \E m \in UpInputs :
            /\ Len(upRecv) < MaxUpMsgs
            /\ upRecv' = Append(upRecv, m)
            /\ lateRecv' = (lateRecv \/ Late)
            /\ ppc' = AfterRecv(m)
            /\ pmsg' = m.body
            /\ UNCHANGED pexit
       \/ /\ ppc' = "done"
          /\ pexit' = "ended"
          /\ UNCHANGED <<upRecv, pmsg, lateRecv>>
    /\ UNCHANGED <<apiKey, hpc, firstMsg, hsVars, upVars, stop_flag, raising,
                   starts, lateSends, clientIn, toClient, clientQuiet>>

\* a pump that catches the exception of recv inside its loop and calls recv
\* again
PumpRecvClosedSpin ==
    /\ ppc = "recv"
    /\ conn = "closed"
    /\ UNCHANGED vars

\* line 242 after the handler closed ws_sr: recv raises
PumpRecvClosed ==
    /\ ppc = "recv"
    /\ conn = "closed"
    /\ ppc' = "done"
    /\ pexit' = "closed"
    /\ UNCHANGED <<apiKey, hpc, firstMsg, hsVars, upVars, stop_flag, raising,
                   pmsg, upRecv, lateRecv, starts, lateSends, clientIn, toClient,
                   clientQuiet>>

\* a pump that closes ws_sr when its send to the client raises
PumpSendClosing ==
    /\ ppc = "send"
    /\ \E ok \in BOOLEAN :
         /\ toClient' = Append(toClient, Sent(pmsg, "pump", ok))
         /\ lateSends' = IF stop_flag THEN Append(lateSends, hpc) ELSE lateSends
         /\ IF ok
              THEN ppc' = "check" /\ UNCHANGED <<pexit, conn>>
              ELSE ppc' = "done" /\ pexit' = "sendfail" /\ conn' = "closed"
    /\ UNCHANGED <<apiKey, hpc, firstMsg, hsVars, connects, upSent, upFail,
                   stop_flag, raising, pmsg, upRecv, lateRecv, starts,
                   clientIn, clientQuiet>>

\* line 249: ws_client.send(msg); when it raises the pump ends (line 250)
PumpSend ==
    /\ ppc = "send"
    /\ \E ok \in BOOLEAN :
         /\ toClient' = Append(toClient, Sent(pmsg, "pump", ok))
         /\ lateSends' = IF stop_flag THEN Append(lateSends, hpc) ELSE lateSends
         /\ IF ok
              THEN ppc' = "check" /\ UNCHANGED pexit
              ELSE ppc' = "done" /\ pexit' = "sendfail"
    /\ UNCHANGED <<apiKey, hpc, firstMsg, hsVars, upVars, stop_flag, raising,
                   pmsg, upRecv, lateRecv, starts, clientIn, clientQuiet>>

(* ---- the client ---- *)
\* the client stays connected and sends nothing more: the receive the
\* handler is blocked in never returns
ClientGoesQuiet ==
    /\ hpc \in {"recv_first", "loop_recv"}
    /\ ~clientQuiet
    /\ clientQuiet' = TRUE
    /\ UNCHANGED <<apiKey, hpc, firstMsg, hsVars, upVars, stop_flag, raising,
                   pumpVars, clientIn, toClient>>

Handler ==
    \/ CheckKey \/ RecvFirst \/ Merge \/ Connect \/ SendConfig
    \/ StartThread \/ LoopRecv \/ FinStop \/ FinClose

Pump == PumpCheck \/ PumpRecvRemote \/ PumpRecvClosed \/ PumpSend

Next == Handler \/ Pump \/ ClientGoesQuiet

Spec == Init /\ [][Next]_vars

\* Both threads are scheduled, so a step that is not waiting on the client
\* or on the upstream service is eventually taken.  A client that has not
\* gone quiet has its next message or its close on the way, and the handler
\* blocked in receive reads it.  Nothing is assumed of the upstream service
\* (PumpRecvRemote).
FairSpec ==
    /\ Spec
    /\ WF_vars(CheckKey \/ Merge \/ Connect \/ SendConfig \/ StartThread
                  \/ FinStop \/ FinClose)
    /\ WF_vars(RecvFirst \/ LoopRecv)
    /\ WF_vars(PumpCheck \/ PumpRecvClosed \/ PumpSend)

(* ======================= properties ======================= *)
Bodies(seq) == [i \in 1..Len(seq) |-> seq[i].body]
IsBinMsg(m) == m.kind = "bin"
\* payloads of the binary frames read from the client in the streaming loop
ClientFrames == Bodies(SelectSeq(clientIn, IsBinMsg))
\* payloads of the binary frames sent upstream
UpFrames == Bodies(SelectSeq(upSent, IsBinMsg))
EosReceived == \E i \in 1..Len(clientIn) : IsEos(clientIn[i])

\* C1: as long as no send on the upstream connection has failed, the binary
\* frames sent upstream are exactly the binary frames received from the
\* client: same payloads, same order, none duplicated, none dropped.
C1_FramesForwarded == ~upFail => UpFrames = ClientFrames

\* two different frames were read and forwarded, then end-of-stream
C1_Witness ==
    /\ ~upFail
    /\ ClientFrames = <<"f2", "f1">>
    /\ EosReceived
    /\ hpc = "returned"

IsTextMsg(m) == ~m.bin
IsPumpSend(e) == e.by = "pump"
\* texts the pump received from the upstream service, in receipt order
PumpTexts == Bodies(SelectSeq(upRecv, IsTextMsg))
\* messages the pump passed to ws_client.send, in order
PumpForwarded ==
    LET sends == SelectSeq(toClient, IsPumpSend)
    IN  [i \in 1..Len(sends) |-> sends[i].msg]

\* C2: every text the pump receives from the upstream service is passed to
\* ws_client.send unchanged and in receipt order (the one the pump holds
\* between its receive and its send is the only one outstanding), and no
\* binary message from upstream is ever passed to the client.
C2_TextsForwarded ==
    /\ IF ppc = "send"
         THEN Append(PumpForwarded, pmsg) = PumpTexts
         ELSE PumpForwarded = PumpTexts
    /\ \A i \in 1..Len(toClient) :
          toClient[i].by = "pump" => toClient[i].msg \in UpTexts

\* the upstream service sent a binary message and a text, one of them after
\* the client's end-of-stream; the text reached the client and the handler
\* is done
C2_Witness ==
    /\ EosReceived
    /\ hpc = "returned"
    /\ lateRecv
    /\ upRecv = <<[bin |-> TRUE, body |-> "b1"], [bin |-> FALSE, body |-> "t1"]>>
    /\ toClient = <<Sent("t1", "pump", TRUE)>>

EosSent == SelectSeq(upSent, LAMBDA m : m = UpEos)

\* C3: once the streaming loop has read an end-of-stream message from the
\* client, nothing more is sent upstream and nothing more is read from the
\* client; the upstream sequence holds at most one {"eos": true} and no
\* audio frame after it.
C3_NothingAfterEos ==
    /\ [][EosReceived => (upSent' = upSent /\ clientIn' = clientIn)]_vars
    /\ [](/\ Len(EosSent) <= 1
          /\ \A i \in 1..Len(upSent) : upSent[i] = UpEos => i = Len(upSent))

\* a frame, then end-of-stream, both sent upstream, and the handler is done
C3_Witness ==
    /\ clientIn = <<Bin("f1"), Text("{eos:true}")>>
    /\ upSent[Len(upSent)] = UpEos
    /\ UpFrames = <<"f1">>
    /\ hpc = "returned"

\* the pump saw the upstream connection end while the session was up
UpstreamEnded == pexit = "ended"
ShutdownRun == stop_flag /\ conn = "closed"

\* C4: when the pump's recv returns end-of-data or raises, the handler
\* eventually leaves its loop and runs shutdown, and nothing more is sent to
\* the client, whatever the client does.
C4_UpstreamCloseEndsSession ==
    /\ UpstreamEnded ~> ShutdownRun
    /\ [][UpstreamEnded => toClient' = toClient]_vars

\* the calls of ws_client.send that did not raise
Delivered == SelectSeq(toClient, LAMBDA e : e.ok)
NoClientSendFailed == \A i \in 1..Len(toClient) : toClient[i].ok
HandlerDone == hpc \in {"returned", "raised"}
NoUpstream == connects = 0 /\ conn = "none" /\ upSent = <<>> /\ ppc = "idle"

\* C5: when the first client message is binary, no upstream connection is
\* ever opened, and a handler that has returned has delivered exactly one
\* message to the client, a structured error (the "Expected JSON config
\* first" one unless that send raised).
C5_BinaryFirstRejected ==
    firstMsg.kind = "bin" =>
        /\ NoUpstream
        /\ clientIn = <<>>
        /\ hpc = "returned" =>
              /\ Len(Delivered) = 1
              /\ Delivered[1].msg \in ErrorMsgs
              /\ Delivered[1].by = "handler"
              /\ NoClientSendFailed => Delivered[1].msg = ErrExpectedConfig

C5_Witness ==
    /\ firstMsg = Bin("f1")
    /\ hpc = "returned"
    /\ toClient = <<Sent(ErrExpectedConfig, "handler", TRUE)>>

\* the first message is text and is not a well-formed configuration: it does
\* not parse, or is not a JSON object, or has a non-numeric sample_rate_hz
MalformedFirst ==
    /\ firstMsg.kind = "text"
    /\ LET p == JsonLoads(firstMsg.body)
       IN  ~p.ok \/ ~p.obj \/ p.sr.t = "badstr"

\* C6: when the first message is text but not a well-formed configuration
\* and no send to the client fails, the handler sends exactly one structured
\* error, opens no upstream connection and returns normally.
C6_MalformedConfigReported ==
    (MalformedFirst /\ NoClientSendFailed) =>
        /\ NoUpstream
        /\ hpc # "raised"
        /\ hpc = "returned" =>
              /\ Len(toClient) = 1
              /\ toClient[1].msg \in ErrorMsgs

\* C7: without a credential the handler makes one send to the client, the
\* "Missing SONIOX_API_KEY" error, reads nothing from the client and opens
\* no upstream connection; when it has returned the client has that one
\* message.
C7_MissingKeyReported ==
    ~apiKey =>
        /\ hpc \in {"start", "returned", "raised"}
        /\ firstMsg = Unread
        /\ clientIn = <<>>
        /\ NoUpstream
        /\ hpc # "start" =>
              /\ Len(toClient) = 1
              /\ toClient[1].msg = ErrMissingKey
        /\ hpc = "returned" => toClient = <<Sent(ErrMissingKey, "handler", TRUE)>>

C7_Witness ==
    /\ ~apiKey
    /\ hpc = "returned"
    /\ Delivered = <<Sent(ErrMissingKey, "handler", TRUE)>>

\* what the client supplied in its handshake
Supplied == JsonLoads(OrEmptyObj(firstMsg))
ConfigSent == Len(upSent) >= 1 /\ upSent[1].kind = "config"

\* C8: the sample_rate_hz of the configuration sent upstream is the
\* client's value when that is present and positive, and 48000 otherwise
\* (absent, zero or negative).
C8_SampleRateDefault ==
    ConfigSent =>
        upSent[1].sample_rate_hz =
            IF Supplied.sr.t = "int" /\ Supplied.sr.n > 0
              THEN Supplied.sr.n
              ELSE 48000

\* C9: the language_hints of the configuration sent upstream is the client's
\* list when that is present and non-empty, and DEFAULT_LANGUAGE_HINTS
\* otherwise.
C9_LanguageHintsDefault ==
    ConfigSent =>
        upSent[1].language_hints =
            IF Supplied.hasLh /\ Len(Supplied.lh) > 0
              THEN Supplied.lh
              ELSE <<"en", "fr", "nl">>

\* an empty list was supplied and the default went upstream
C9_Witness ==
    /\ firstMsg = Text("{language_hints:[],sample_rate_hz:0}")
    /\ ConfigSent
    /\ upSent[1].language_hints = <<"en", "fr", "nl">>

\* the session of C10: after the configuration the client sent binary
\* frames only and then end-of-stream, and no send on ws_sr failed
CleanSession ==
    /\ ~upFail
    /\ EosReceived
    /\ \A i \in 1..(Len(clientIn) - 1) : clientIn[i].kind = "bin"

\* C10: in a session of configuration, n binary frames, end-of-stream, with
\* no transport failure, what went upstream is exactly one configuration
\* message with the negotiated sample_rate_hz and language_hints, then the n
\* frames in order, then one {"eos": true}; and the session terminates:
\* stop flag set, upstream closed, handler returned.
C10_CleanSessionSequence ==
    /\ [](CleanSession =>
            /\ Len(upSent) = Len(clientIn) + 1
            /\ upSent[1].kind = "config"
            /\ upSent[1].sample_rate_hz = sample_rate_hz
            /\ upSent[1].language_hints = language_hints
            /\ firstMsg = Text("{language_hints:[fr],sample_rate_hz:16000}") =>
                  /\ upSent[1].sample_rate_hz = 16000
                  /\ upSent[1].language_hints = <<"fr">>
            /\ \A i \in 1..(Len(clientIn) - 1) :
                  upSent[i + 1] = UpBin(clientIn[i].body)
            /\ upSent[Len(upSent)] = UpEos)
    /\ CleanSession ~> (hpc = "returned" /\ stop_flag /\ conn = "closed")

\* the scenario of the specification, with two frames
C10_Witness ==
    /\ firstMsg = Text("{language_hints:[fr],sample_rate_hz:16000}")
    /\ clientIn = <<Bin("f1"), Bin("f2"), Text("{eos:true}")>>
    /\ upSent = <<UpConfig(16000, <<"fr">>, "soniox/embedded/v1/rt"),
                  UpBin("f1"), UpBin("f2"), UpEos>>
    /\ hpc = "returned"
    /\ stop_flag
    /\ conn = "closed"

\* the streaming loop ended because ws_client.receive() signalled that the
\* client is gone (it returned None)
ClientClosed == clientIn # <<>> /\ clientIn[Len(clientIn)].kind = "closed"
\* the pump thread was started: the session is established
Established == starts >= 1

\* C11: when the streaming loop ends on client close, {"eos": true} has been
\* sent upstream by the time the upstream connection is closed.
C11_EosOnClientClose ==
    (ClientClosed /\ conn = "closed") => Len(EosSent) = 1

\* C12: on every path out of the streaming loop the flag is set before the
\* upstream connection is closed, both are done when the handler has ended,
\* and the flag never goes back to false.
C12_ShutdownSequencing ==
    /\ [](Established =>
            /\ hpc \in {"fin_close", "returned", "raised"} => stop_flag
            /\ conn = "closed" => stop_flag
            /\ HandlerDone => ShutdownRun)
    /\ [][stop_flag => stop_flag']_vars

\* the loop ended by an exception of ws_client.receive(), shutdown ran and
\* the exception left the handler
C12_Witness ==
    /\ clientIn = <<Bin("f1"), Raise>>
    /\ hpc = "raised"
    /\ stop_flag
    /\ conn = "closed"

\* the pump left its loop on a transport failure: upstream recv ended or
\* raised, or the send to the client raised
PumpFailed == pexit \in {"ended", "sendfail"}

\* C13: when the pump ends on a transport failure, the session eventually
\* sets the stop flag and closes the upstream connection, whether or not the
\* client sends anything more.
C13_PumpFailureShutsDown == PumpFailed ~> ShutdownRun

\* C14: a session calls create_connection at most once, and once the handler
\* has ended the upstream connection it opened is closed.
C14_UpstreamNotOutlived ==
    /\ connects <= 1
    /\ HandlerDone => conn # "open"

\* create_connection raised
ConnectFailed == connects >= 1 /\ conn = "none" /\ hpc # "connect"

\* C15: after a failed connect the handler makes one send to the client, the
\* connect error, and ends: nothing is sent upstream, the pump is not
\* started, no further client message is read, no second connect is made;
\* when the handler has returned the client has that one error.
C15_ConnectFailureAborts ==
    ConnectFailed =>
        /\ HandlerDone
        /\ connects = 1
        /\ upSent = <<>>
        /\ ~upFail
        /\ starts = 0
        /\ ppc = "idle"
        /\ clientIn = <<>>
        /\ Len(toClient) = 1
        /\ toClient[1].msg = ErrConnect
        /\ toClient[1].by = "handler"
        /\ hpc = "returned" => toClient[1].ok

C15_Witness ==
    /\ ConnectFailed
    /\ hpc = "returned"
    /\ toClient = <<Sent(ErrConnect, "handler", TRUE)>>
    /\ firstMsg = Text("{language_hints:[fr],sample_rate_hz:16000}")

HandlerSends == SelectSeq(toClient, LAMBDA e : e.by = "handler")
ErrorSendFailed == \E i \in 1..Len(toClient) :
                       toClient[i].by = "handler" /\ ~toClient[i].ok

\* C16: when a send of an error message to the client fails, the handler
\* still ends normally, makes no second error send, and leaves no upstream
\* connection open.
C16_ErrorReportBestEffort ==
    ErrorSendFailed =>
        /\ hpc # "raised"
        /\ Len(HandlerSends) = 1
        /\ HandlerDone => conn # "open"

\* C17: the pump thread is started exactly once in an established session
\* and never again; once shutdown has set the flag and closed the upstream
\* connection the pump eventually ends, wherever it was, and a pump that has
\* ended stays ended.
C17_PumpStartsOnceAndExits ==
    /\ [](/\ starts <= 1
          /\ (ppc # "idle") = (starts = 1)
          /\ hpc \in {"loop_recv", "fin_stop", "fin_close"} => starts = 1)
    /\ [][ppc = "done" => ppc' = "done"]_vars
    /\ (Established /\ ShutdownRun) ~> (ppc = "done")

\* the handler closed ws_sr while the pump was in recv, and the pump ended
\* on the exception
C17_Witness ==
    /\ Established
    /\ ShutdownRun
    /\ hpc = "returned"
    /\ ppc = "done"
    /\ pexit = "closed"

\* C18: on ws_sr only the handler sends and closes and only the pump
\* receives: a step that sends on or closes ws_sr is not a pump step, a step
\* that receives from it is not a handler step; and of the state one thread
\* writes, the other reads only the stop flag, which the handler alone writes.
C18_DisjointRoles ==
    /\ [][(upSent' # upSent \/ upFail' # upFail \/ conn' # conn
              \/ stop_flag' # stop_flag \/ clientIn' # clientIn)
            => UNCHANGED <<ppc, pmsg, upRecv, pexit>>]_vars
    /\ [][(upRecv' # upRecv \/ pmsg' # pmsg \/ pexit' # pexit)
            => UNCHANGED <<hpc, conn, connects, upSent, upFail, stop_flag,
                           raising, clientIn>>]_vars

\* both threads have used ws_sr: the handler sent a frame and closed it, the
\* pump received from it
C18_Witness ==
    /\ UpFrames = <<"f1">>
    /\ Len(upRecv) = 2
    /\ conn = "closed"
    /\ hpc = "returned"
    /\ pexit = "closed"

\* C19: the handler sends to the client only before the pump thread is
\* started, and once it is started only the pump does: no session has sends
\* of both, and every send of the handler is made while the pump is idle.
C19_OneClientSender ==
    /\ [](Established => HandlerSends = <<>>)
    /\ [][Len(HandlerSends') > Len(HandlerSends) => (ppc = "idle" /\ ppc' = "idle")]_vars

\* the pump has sent twice while the handler is in its loop
C19_Witness ==
    /\ hpc = "loop_recv"
    /\ toClient = <<Sent("t1", "pump", TRUE), Sent("t2", "pump", TRUE)>>

\* C20: after the stop flag is set the pump makes at most one more send to
\* the client before it ends.
C20_AtMostOneLateSend == Len(lateSends) <= 1

\* the pump made its last send after the handler had returned
C20_Witness ==
    /\ lateSends = <<"returned">>
    /\ ppc = "done"
    /\ pexit = "stop"
====
